---- MODULE Spec2Model ----
(***************************************************************************)
(* RTCom / PCF8523 real-time-clock driver (src/RTCom/PCF8523.py).          *)
(*                                                                         *)
(* The chip is a file of ten one-byte registers behind an I2C bus.  Every  *)
(* public method of class RTC is one action; the action runs the whole     *)
(* method, every register read and write it issues included, and records   *)
(* the bus traffic of the call, its return value and the exception it      *)
(* raised.  A call in progress is a record m:                              *)
(*   m.regs  the chip's registers          m.trace the bus calls so far    *)
(*   m.err   "none" or the exception       m.ret   the value returned      *)
(*   m.sret  the string returned (as_str)                                  *)
(*   m.written, m.hmode, m.lastTime  history, never read by the driver:    *)
(*           what each setter was last asked to store, the 12/24 bit the   *)
(*           last set_hour read, and the tuple of the last set_time that   *)
(*           completed with no setter call since                           *)
(* and every method is an operator from m to m that does nothing once an   *)
(* exception is pending, which is how a Python exception skips the rest of *)
(* the caller's body.                                                      *)
(***************************************************************************)
EXTENDS Integers, Sequences, FiniteSets, TLC

VARIABLES regs, last, ghost, ncalls

vars == <<regs, last, ghost, ncalls>>

-----------------------------------------------------------------------------
(* Module constants, PCF8523.py lines 8-30 *)

_ADDRESS == 104

_REGISTER_CONTROL_1 == 0
_REGISTER_CONTROL_2 == 1
_REGISTER_CONTROL_3 == 2
_REGISTER_SECOND == 3
_REGISTER_MINUTE == 4
_REGISTER_HOUR == 5
_REGISTER_DAY == 6
_REGISTER_WEEKDAY == 7
_REGISTER_MONTH == 8
_REGISTER_YEAR == 9

WEEKDAY_STR == <<"SUN", "MON", "TUE", "WED", "THU", "FRI", "SAT">>

MONTH_STR == <<"JAN", "FEB", "MAR", "APR", "MAY", "JUN", "JUL", "AUG", "SEP", "OCT", "NOV", "DEC">>

Registers == _REGISTER_CONTROL_1 .. _REGISTER_YEAR

Byte == 0 .. 255

-----------------------------------------------------------------------------
(* Python integer operators used by the driver *)

RECURSIVE BitAnd(_, _)
BitAnd(x, y) ==
    IF x = 0 \/ y = 0 THEN 0
    ELSE (IF x % 2 = 1 /\ y % 2 = 1 THEN 1 ELSE 0) + 2 * BitAnd(x \div 2, y \div 2)

RECURSIVE BitOr(_, _)
BitOr(x, y) ==
    IF x = 0 THEN y
    ELSE IF y = 0 THEN x
    ELSE (IF x % 2 = 1 \/ y % 2 = 1 THEN 1 ELSE 0) + 2 * BitOr(x \div 2, y \div 2)

RECURSIVE Pow2(_)
Pow2(n) == IF n = 0 THEN 1 ELSE 2 * Pow2(n - 1)

ShiftLeft(x, n) == x * Pow2(n)

ShiftRight(x, n) == x \div Pow2(n)

\* list.index(x) + 1: the 1-based position of s in the tuple t, 0 when absent
IndexOf(t, s) == IF \E i \in DOMAIN t : t[i] = s THEN CHOOSE i \in DOMAIN t : t[i] = s ELSE 0

-----------------------------------------------------------------------------
(* A call in progress, and the two private bus helpers *)

Begin(r, g) ==
    [regs |-> r, trace |-> <<>>, err |-> "none", ret |-> <<>>, sret |-> "",
     written |-> g.written, hmode |-> g.hmode, lastTime |-> g.lastTime]

Return(m, v) == IF m.err # "none" THEN m ELSE [m EXCEPT !.ret = <<v>>]

ReturnStr(m, s) == IF m.err # "none" THEN m ELSE [m EXCEPT !.sret = s]

\* m.written[reg]: the value the last setter call that reached its write put in reg
Noted(m, reg_addr, v) ==
    IF m.err # "none" THEN m
    ELSE [m EXCEPT !.written[reg_addr] = <<v>>, !.lastTime = <<>>]

Raise(m, e) == IF m.err # "none" THEN m ELSE [m EXCEPT !.err = e]

\* __read_register: one readfrom_mem of one byte; the value read is m.regs[reg_addr]
read_register(m, reg_addr) ==
    IF m.err # "none" THEN m
    ELSE [m EXCEPT !.trace = Append(@, <<"read", reg_addr>>)]

\* __write_register: struct.pack('<B', value) raises outside 0..255, before the bus call
write_register(m, reg_addr, value) ==
    IF m.err # "none" THEN m
    ELSE IF value \notin Byte THEN Raise(m, "struct.error")
    ELSE [m EXCEPT !.regs[reg_addr] = value,
                   !.trace = Append(@, <<"write", reg_addr>>)]

\* __get_bit_12_24: the value it returns on m (its bus read is get_bit_12_24_read)
get_bit_12_24(m) == ShiftRight(BitAnd(m.regs[_REGISTER_CONTROL_1], 8), 3)

get_bit_12_24_read(m) == read_register(m, _REGISTER_CONTROL_1)

\* __enable_24_mode with the mask 0x07 in place of 0xF7
enable_24_mode_lowmask(m) ==
    LET m1 == read_register(m, _REGISTER_CONTROL_1)
        ctrl1_val1 == BitAnd(m1.regs[_REGISTER_CONTROL_1], 7)
    IN  write_register(m1, _REGISTER_CONTROL_1, ctrl1_val1)

\* __enable_24_mode
enable_24_mode(m) ==
    LET m1 == read_register(m, _REGISTER_CONTROL_1)
        ctrl1_val1 == BitAnd(m1.regs[_REGISTER_CONTROL_1], 247)
    IN  write_register(m1, _REGISTER_CONTROL_1, ctrl1_val1)

-----------------------------------------------------------------------------
(* Controls setters & getters, lines 82-143.  A Python argument that may   *)
(* be any object is modelled by its repr: "True", "False", "None", "1".    *)

\* battery_switch_over without the clearing of the interrupt flag
battery_switch_over_keepflag(m, activate) ==
    LET m1 == read_register(m, _REGISTER_CONTROL_3)
        ctrl3_val == m1.regs[_REGISTER_CONTROL_3]
    IN  IF activate = "True"
          THEN write_register(m1, _REGISTER_CONTROL_3, BitAnd(ctrl3_val, 31))
        ELSE IF activate = "False"
          THEN write_register(m1, _REGISTER_CONTROL_3, BitOr(ctrl3_val, 224))
        ELSE Raise(m1, "ValueError")

battery_switch_over(m, activate) ==
    LET m1 == read_register(m, _REGISTER_CONTROL_3)
        cleared == BitAnd(m1.regs[_REGISTER_CONTROL_3], 247)
    IN  IF activate = "True"
          THEN write_register(m1, _REGISTER_CONTROL_3, BitAnd(cleared, 31))
        ELSE IF activate = "False"
          THEN write_register(m1, _REGISTER_CONTROL_3, BitOr(cleared, 224))
        ELSE Raise(m1, "ValueError")

\* vbat_interrupt testing truthiness: anything that is not True disables
vbat_interrupt_truthy(m, activate) ==
    LET m1 == read_register(m, _REGISTER_CONTROL_3)
        ctrl3_val == m1.regs[_REGISTER_CONTROL_3]
    IN  IF activate = "True"
          THEN write_register(m1, _REGISTER_CONTROL_3, BitOr(ctrl3_val, 1))
          ELSE write_register(m1, _REGISTER_CONTROL_3, BitAnd(ctrl3_val, 254))

vbat_interrupt(m, activate) ==
    LET m1 == read_register(m, _REGISTER_CONTROL_3)
        ctrl3_val == m1.regs[_REGISTER_CONTROL_3]
    IN  IF activate = "True"
          THEN write_register(m1, _REGISTER_CONTROL_3, BitOr(ctrl3_val, 1))
        ELSE IF activate = "False"
          THEN write_register(m1, _REGISTER_CONTROL_3, BitAnd(ctrl3_val, 254))
        ELSE Raise(m1, "ValueError")

battery_low(m) ==
    LET m1 == read_register(m, _REGISTER_CONTROL_3)
        BLF_flag == ShiftRight(BitAnd(m1.regs[_REGISTER_CONTROL_3], 4), 2)
    IN  Return(m1, IF BLF_flag = 1 THEN 1 ELSE 0)

-----------------------------------------------------------------------------
(* Basic time getters, lines 194-326 *)

get_second(m) ==
    LET m1 == read_register(m, _REGISTER_SECOND)
        second_bcd == m1.regs[_REGISTER_SECOND]
        tens == ShiftRight(BitAnd(second_bcd, 112), 4)
        digit == BitAnd(second_bcd, 15)
    IN  Return(m1, 10 * tens + digit)

get_minute(m) ==
    LET m1 == read_register(m, _REGISTER_MINUTE)
        minute_bcd == m1.regs[_REGISTER_MINUTE]
        tens == ShiftRight(BitAnd(minute_bcd, 112), 4)
        digit == BitAnd(minute_bcd, 15)
    IN  Return(m1, 10 * tens + digit)

get_hour(m) ==
    LET m1 == read_register(m, _REGISTER_HOUR)
        hour_bcd == m1.regs[_REGISTER_HOUR]
        m2 == get_bit_12_24_read(m1)
    IN  IF get_bit_12_24(m1) = 0
          THEN LET tens == ShiftRight(BitAnd(hour_bcd, 48), 4)
                   digit == BitAnd(hour_bcd, 15)
               IN  Return(m2, 10 * tens + digit)
          ELSE LET am_pm == ShiftRight(BitAnd(hour_bcd, 32), 5)
                   tens == ShiftRight(BitAnd(hour_bcd, 16), 4)
                   digit == BitAnd(hour_bcd, 15)
               IN  Return(m2, 12 * am_pm + 10 * tens + digit)

get_day(m) ==
    LET m1 == read_register(m, _REGISTER_DAY)
        day_bcd == m1.regs[_REGISTER_DAY]
        tens == ShiftRight(BitAnd(day_bcd, 48), 4)
        digit == BitAnd(day_bcd, 15)
    IN  Return(m1, 10 * tens + digit)

\* WEEKDAY_STR[wd]: Python indexes from 0 and raises IndexError past the end
get_weekday(m, as_str) ==
    LET m1 == read_register(m, _REGISTER_WEEKDAY)
        wd == BitAnd(m1.regs[_REGISTER_WEEKDAY], 7)
    IN  IF as_str
          THEN IF wd + 1 \in DOMAIN WEEKDAY_STR
                 THEN ReturnStr(m1, WEEKDAY_STR[wd + 1])
                 ELSE Raise(m1, "IndexError")
          ELSE Return(m1, wd)

\* MONTH_STR[month - 1]: index -1 (month 0) is the last entry, 12 and more raise
get_month(m, as_str) ==
    LET m1 == read_register(m, _REGISTER_MONTH)
        month_bcd == m1.regs[_REGISTER_MONTH]
        tens == ShiftRight(BitAnd(month_bcd, 16), 4)
        digit == BitAnd(month_bcd, 15)
        month == 10 * tens + digit
    IN  IF as_str
          THEN IF month \in DOMAIN MONTH_STR THEN ReturnStr(m1, MONTH_STR[month])
               ELSE IF month = 0 THEN ReturnStr(m1, MONTH_STR[Len(MONTH_STR)])
               ELSE Raise(m1, "IndexError")
          ELSE Return(m1, month)

\* get_year with the seconds' tens mask (0x70) in place of 0xF0
get_year_tens3(m) ==
    LET m1 == read_register(m, _REGISTER_YEAR)
        year_bcd == m1.regs[_REGISTER_YEAR]
        tens == ShiftRight(BitAnd(year_bcd, 112), 4)
        digit == BitAnd(year_bcd, 15)
    IN  Return(m1, (10 * tens + digit) + 1970)

get_year(m) ==
    LET m1 == read_register(m, _REGISTER_YEAR)
        year_bcd == m1.regs[_REGISTER_YEAR]
        tens == ShiftRight(BitAnd(year_bcd, 240), 4)
        digit == BitAnd(year_bcd, 15)
    IN  Return(m1, (10 * tens + digit) + 1970)

-----------------------------------------------------------------------------
(* Basic time setters, lines 330-498.  range(a, b) is a .. b - 1.          *)

Bcd(value) == BitOr(ShiftLeft(value \div 10, 4), value % 10)

set_second(m, second) ==
    IF m.err # "none" THEN m
    ELSE IF second \notin 0 .. 59 THEN Raise(m, "ValueError")
    ELSE Noted(write_register(m, _REGISTER_SECOND, Bcd(second)), _REGISTER_SECOND, second)

\* set_minute writing the seconds register
set_minute_wrongreg(m, minute) ==
    IF m.err # "none" THEN m
    ELSE IF minute \notin 0 .. 59 THEN Raise(m, "ValueError")
    ELSE Noted(write_register(m, _REGISTER_SECOND, Bcd(minute)), _REGISTER_MINUTE, minute)

set_minute(m, minute) ==
    IF m.err # "none" THEN m
    ELSE IF minute \notin 0 .. 59 THEN Raise(m, "ValueError")
    ELSE Noted(write_register(m, _REGISTER_MINUTE, Bcd(minute)), _REGISTER_MINUTE, minute)

\* the 12h branch: meridien from hour <= 12, hour 12 kept, any other hour taken mod 12
Hour12(hour) ==
    LET meridien == IF hour <= 12 THEN 0 ELSE 1
        h == IF hour = 12 THEN 12 ELSE hour % 12
    IN  BitOr(BitOr(ShiftLeft(meridien, 5), ShiftLeft(h \div 10, 4)), h % 10)

set_hour(m, hour) ==
    IF m.err # "none" THEN m
    ELSE IF hour \notin 0 .. 23 THEN Raise(m, "ValueError")
    ELSE LET m1 == get_bit_12_24_read(m)
             bit == get_bit_12_24(m)
             reg_value == IF bit = 0 THEN Bcd(hour) ELSE Hour12(hour)
             m2 == Noted(write_register(m1, _REGISTER_HOUR, reg_value), _REGISTER_HOUR, hour)
         IN  IF m2.err # "none" THEN m2 ELSE [m2 EXCEPT !.hmode = bit]

\* set_day accepting 1..31, as its docstring words the range
set_day_to31(m, day) ==
    IF m.err # "none" THEN m
    ELSE IF day \notin 1 .. 31 THEN Raise(m, "ValueError")
    ELSE Noted(write_register(m, _REGISTER_DAY, Bcd(day)), _REGISTER_DAY, day)

set_day(m, day) ==
    IF m.err # "none" THEN m
    ELSE IF day \notin 1 .. 30 THEN Raise(m, "ValueError")
    ELSE Noted(write_register(m, _REGISTER_DAY, Bcd(day)), _REGISTER_DAY, day)

\* weekday is <<"int", n>> or <<"str", s>> (isinstance(weekday, str))
set_weekday(m, weekday) ==
    IF m.err # "none" THEN m
    ELSE IF weekday[1] = "str" /\ IndexOf(WEEKDAY_STR, weekday[2]) = 0 THEN Raise(m, "ValueError")
    ELSE LET weekday_int == IF weekday[1] = "str"
                              THEN IndexOf(WEEKDAY_STR, weekday[2]) - 1
                              ELSE weekday[2]
         IN  IF weekday_int \notin 0 .. 6 THEN Raise(m, "ValueError")
             ELSE Noted(write_register(m, _REGISTER_WEEKDAY, weekday_int),
                        _REGISTER_WEEKDAY, weekday_int)

\* month is <<"int", n>> or <<"str", s>> (isinstance(month, str))
set_month(m, month) ==
    IF m.err # "none" THEN m
    ELSE IF month[1] = "str" /\ IndexOf(MONTH_STR, month[2]) = 0 THEN Raise(m, "ValueError")
    ELSE LET month_int == IF month[1] = "str"
                            THEN (IndexOf(MONTH_STR, month[2]) - 1) + 1
                            ELSE month[2]
         IN  IF month_int \notin 1 .. 12 THEN Raise(m, "ValueError")
             ELSE Noted(write_register(m, _REGISTER_MONTH, Bcd(month_int)),
                        _REGISTER_MONTH, month_int)

set_year(m, year) ==
    IF m.err # "none" THEN m
    ELSE IF year \notin 1970 .. 2119 THEN Raise(m, "ValueError")
    ELSE Noted(write_register(m, _REGISTER_YEAR, Bcd(year - 1970)), _REGISTER_YEAR, year)

-----------------------------------------------------------------------------
(* Time functions, lines 147-190, and init, lines 54-78 *)

now(m) ==
    LET m1 == get_year(m)
        m2 == get_month(m1, FALSE)
        m3 == get_day(m2)
        m4 == get_hour(m3)
        m5 == get_minute(m4)
        m6 == get_second(m5)
    IN  IF m6.err # "none" THEN m6
        ELSE [m6 EXCEPT !.ret = <<m1.ret[1], m2.ret[1], m3.ret[1],
                                   m4.ret[1], m5.ret[1], m6.ret[1], 0, 0>>]

\* datetime[i] (0-based) raises IndexError on a tuple shorter than i + 1
Item(m, datetime, i) == IF Len(datetime) > i THEN m ELSE Raise(m, "IndexError")

\* set_time leaving hour, minute and second alone when the tuple has none
set_time_nodefault(m, datetime) ==
    LET m1 == set_year(Item(m, datetime, 0), IF Len(datetime) > 0 THEN datetime[1] ELSE 0)
        m2 == set_month(Item(m1, datetime, 1),
                        <<"int", IF Len(datetime) > 1 THEN datetime[2] ELSE 0>>)
        m3 == set_day(Item(m2, datetime, 2), IF Len(datetime) > 2 THEN datetime[3] ELSE 0)
        m4 == IF Len(datetime) > 3 THEN set_hour(m3, datetime[4]) ELSE m3
        m5 == IF Len(datetime) > 4 THEN set_minute(m4, datetime[5]) ELSE m4
        m6 == IF Len(datetime) > 5 THEN set_second(m5, datetime[6]) ELSE m5
    IN  IF m6.err # "none" THEN m6 ELSE [m6 EXCEPT !.lastTime = datetime]

set_time(m, datetime) ==
    LET m1 == set_year(Item(m, datetime, 0), IF Len(datetime) > 0 THEN datetime[1] ELSE 0)
        m2 == set_month(Item(m1, datetime, 1),
                        <<"int", IF Len(datetime) > 1 THEN datetime[2] ELSE 0>>)
        m3 == set_day(Item(m2, datetime, 2), IF Len(datetime) > 2 THEN datetime[3] ELSE 0)
        m4 == set_hour(m3, IF Len(datetime) > 3 THEN datetime[4] ELSE 0)
        m5 == set_minute(m4, IF Len(datetime) > 4 THEN datetime[5] ELSE 0)
        m6 == set_second(m5, IF Len(datetime) > 5 THEN datetime[6] ELSE 0)
    IN  IF m6.err # "none" THEN m6 ELSE [m6 EXCEPT !.lastTime = datetime]

\* init looking at the scan only after the 24h mode was forced
init_latescan(m, scanned, given, datetime, switch_over, vbat) ==
    LET m0 == [m EXCEPT !.trace = Append(@, <<"scan", _ADDRESS>>)]
        m1 == enable_24_mode(m0)
    IN  IF _ADDRESS \notin scanned THEN Raise(m1, "RuntimeError")
        ELSE LET m2 == battery_switch_over(m1, switch_over)
                 m3 == vbat_interrupt(m2, vbat)
             IN  IF given THEN set_time(m3, datetime) ELSE m3

\* scanned: what i2c_bus.scan() returns; given: datetime is not None
init(m, scanned, given, datetime, switch_over, vbat) ==
    LET m0 == [m EXCEPT !.trace = Append(@, <<"scan", _ADDRESS>>)]
    IN  IF _ADDRESS \notin scanned THEN Raise(m0, "RuntimeError")
        ELSE LET m1 == enable_24_mode(m0)
                 m2 == battery_switch_over(m1, switch_over)
                 m3 == vbat_interrupt(m2, vbat)
             IN  IF given THEN set_time(m3, datetime) ELSE m3

-----------------------------------------------------------------------------
(* State.  regs is the chip's register file; last is the call that just    *)
(* returned; ghost is the history carried between calls; ncalls counts the *)
(* calls made.                                                             *)

MaxCalls == 3

MaxArg == 2121

TimeRegisters == _REGISTER_SECOND .. _REGISTER_YEAR

\* a register file: the chip's seconds..years after power-on, and the two control
\* bytes the driver modifies as given
ChipRegs(ctrl1, ctrl3) ==
    [r \in Registers |->
        IF r = _REGISTER_CONTROL_1 THEN ctrl1
        ELSE IF r = _REGISTER_CONTROL_3 THEN ctrl3
        ELSE IF r = _REGISTER_SECOND THEN 128
        ELSE IF r \in {_REGISTER_DAY, _REGISTER_MONTH} THEN 1
        ELSE 0]

NoCall ==
    [op |-> "", arg |-> <<>>, sarg |-> <<>>, scan |-> {}, ret |-> <<>>, sret |-> "",
     err |-> "none", trace |-> <<>>]

NoHistory == [written |-> [r \in TimeRegisters |-> <<>>], hmode |-> 0, lastTime |-> <<>>]

\* the call op(arg, sarg) ran to m
Finish(op, arg, sarg, scanned, m) ==
    /\ regs' = m.regs
    /\ last' = [op |-> op, arg |-> arg, sarg |-> sarg, scan |-> scanned, ret |-> m.ret,
                sret |-> m.sret, err |-> m.err, trace |-> m.trace]
    /\ ghost' = [written |-> m.written, hmode |-> m.hmode, lastTime |-> m.lastTime]
    /\ ncalls' = ncalls + 1

Cur == Begin(regs, ghost)

Repr(b) == IF b THEN "True" ELSE "False"

InitCall(scanned, given, datetime, switch_over, vbat) ==
    Finish("init", datetime, <<Repr(given), switch_over, vbat>>, scanned,
           init(Cur, scanned, given, datetime, switch_over, vbat))

BatterySwitchOver(activate) ==
    Finish("battery_switch_over", <<>>, <<activate>>, {}, battery_switch_over(Cur, activate))

VbatInterrupt(activate) ==
    Finish("vbat_interrupt", <<>>, <<activate>>, {}, vbat_interrupt(Cur, activate))

BatteryLow == Finish("battery_low", <<>>, <<>>, {}, battery_low(Cur))

Now == Finish("now", <<>>, <<>>, {}, now(Cur))

SetTime(datetime) == Finish("set_time", datetime, <<>>, {}, set_time(Cur, datetime))

GetSecond == Finish("get_second", <<>>, <<>>, {}, get_second(Cur))

GetMinute == Finish("get_minute", <<>>, <<>>, {}, get_minute(Cur))

GetHour == Finish("get_hour", <<>>, <<>>, {}, get_hour(Cur))

GetDay == Finish("get_day", <<>>, <<>>, {}, get_day(Cur))

GetWeekday(as_str) == Finish("get_weekday", <<>>, <<Repr(as_str)>>, {}, get_weekday(Cur, as_str))

GetMonth(as_str) == Finish("get_month", <<>>, <<Repr(as_str)>>, {}, get_month(Cur, as_str))

GetYear == Finish("get_year", <<>>, <<>>, {}, get_year(Cur))

SetSecond(v) == Finish("set_second", <<v>>, <<>>, {}, set_second(Cur, v))

SetMinute(v) == Finish("set_minute", <<v>>, <<>>, {}, set_minute(Cur, v))

SetHour(v) == Finish("set_hour", <<v>>, <<>>, {}, set_hour(Cur, v))

SetDay(v) == Finish("set_day", <<v>>, <<>>, {}, set_day(Cur, v))

SetWeekday(v) == Finish("set_weekday", <<v>>, <<>>, {}, set_weekday(Cur, <<"int", v>>))

SetWeekdayStr(s) == Finish("set_weekday", <<>>, <<s>>, {}, set_weekday(Cur, <<"str", s>>))

SetMonth(v) == Finish("set_month", <<v>>, <<>>, {}, set_month(Cur, <<"int", v>>))

SetMonthStr(s) == Finish("set_month", <<>>, <<s>>, {}, set_month(Cur, <<"str", s>>))

SetYear(v) == Finish("set_year", <<v>>, <<>>, {}, set_year(Cur, v))

-----------------------------------------------------------------------------
(* Spec: the driver under any sequence of at most MaxCalls calls, with     *)
(* arguments on and around the edges of every domain.                      *)

SecondArgs == {0, 59, 60}
MinuteArgs == {29, 60}
HourArgs == {-1, 0, 12, 23, 24}
DayArgs == {0, 21, 30, 31}
WeekdayArgs == {0, 6, 7}
MonthArgs == {0, 12, 13}
YearArgs == {1969, 2015, 2119, 2120}
NameArgs == {"WED", "JAN", "XYZ"}
ActivateArgs == {"True", "False", "None"}
ScanArgs == {{}, {_ADDRESS}}
TimeArgs ==
    {<<2015, 10, 21, 16, 29, 0>>, <<2015, 10, 21, 16, 29, 0, 0, 0>>, <<2019, 12, 30>>,
     <<1970, 1, 1, 23, 59>>, <<2015, 10, 31, 16, 29, 0>>, <<2015, 10, 21, 24>>, <<2015, 10>>}
InitTimeArgs == {<<2015, 10, 21, 16, 29, 0, 0, 0>>, <<2120, 1, 1>>}

Init ==
    /\ regs \in {ChipRegs(c1, 224) : c1 \in {0, 8}}
    /\ last = NoCall
    /\ ghost = NoHistory
    /\ ncalls = 0

Next ==
    \/ \E sc \in ScanArgs, so \in ActivateArgs, vb \in ActivateArgs :
          ncalls < MaxCalls /\ InitCall(sc, FALSE, <<>>, so, vb)
    \/ \E sc \in ScanArgs, dt \in InitTimeArgs, so \in ActivateArgs, vb \in ActivateArgs :
          ncalls < MaxCalls /\ InitCall(sc, TRUE, dt, so, vb)
    \/ \E a \in ActivateArgs : ncalls < MaxCalls /\ BatterySwitchOver(a)
    \/ \E a \in ActivateArgs : ncalls < MaxCalls /\ VbatInterrupt(a)
    \/ ncalls < MaxCalls /\ BatteryLow
    \/ ncalls < MaxCalls /\ Now
    \/ \E t \in TimeArgs : ncalls < MaxCalls /\ SetTime(t)
    \/ ncalls < MaxCalls /\ GetSecond
    \/ ncalls < MaxCalls /\ GetMinute
    \/ ncalls < MaxCalls /\ GetHour
    \/ ncalls < MaxCalls /\ GetDay
    \/ \E b \in BOOLEAN : ncalls < MaxCalls /\ GetWeekday(b)
    \/ \E b \in BOOLEAN : ncalls < MaxCalls /\ GetMonth(b)
    \/ ncalls < MaxCalls /\ GetYear
    \/ \E v \in SecondArgs : ncalls < MaxCalls /\ SetSecond(v)
    \/ \E v \in MinuteArgs : ncalls < MaxCalls /\ SetMinute(v)
    \/ \E v \in HourArgs : ncalls < MaxCalls /\ SetHour(v)
    \/ \E v \in DayArgs : ncalls < MaxCalls /\ SetDay(v)
    \/ \E v \in WeekdayArgs : ncalls < MaxCalls /\ SetWeekday(v)
    \/ \E s \in NameArgs : ncalls < MaxCalls /\ SetWeekdayStr(s)
    \/ \E v \in MonthArgs : ncalls < MaxCalls /\ SetMonth(v)
    \/ \E s \in NameArgs : ncalls < MaxCalls /\ SetMonthStr(s)
    \/ \E v \in YearArgs : ncalls < MaxCalls /\ SetYear(v)

Spec == Init /\ [][Next]_vars

-----------------------------------------------------------------------------
(* SpecCodec: one setter call with any integer of -1 .. MaxArg, then one   *)
(* getter call, from either hour mode.                                     *)

CodecArgs == -1 .. MaxArg

NextCodec ==
    \/ \E v \in CodecArgs : ncalls = 0 /\ SetSecond(v)
    \/ \E v \in CodecArgs : ncalls = 0 /\ SetMinute(v)
    \/ \E v \in CodecArgs : ncalls = 0 /\ SetHour(v)
    \/ \E v \in CodecArgs : ncalls = 0 /\ SetDay(v)
    \/ \E v \in CodecArgs : ncalls = 0 /\ SetWeekday(v)
    \/ \E v \in CodecArgs : ncalls = 0 /\ SetMonth(v)
    \/ \E v \in CodecArgs : ncalls = 0 /\ SetYear(v)
    \/ ncalls = 1 /\ GetSecond
    \/ ncalls = 1 /\ GetMinute
    \/ ncalls = 1 /\ GetHour
    \/ ncalls = 1 /\ GetDay
    \/ ncalls = 1 /\ GetWeekday(FALSE)
    \/ ncalls = 1 /\ GetMonth(FALSE)
    \/ ncalls = 1 /\ GetYear

SpecCodec == Init /\ [][NextCodec]_vars

-----------------------------------------------------------------------------
(* SpecCtrl: at most CtrlCalls calls from every byte of control1 and every *)
(* byte of control3, one argument per time setter.                         *)

CtrlCalls == 2

InitCtrl ==
    /\ regs \in {ChipRegs(c1, 224) : c1 \in Byte} \cup {ChipRegs(8, c3) : c3 \in Byte}
    /\ last = NoCall
    /\ ghost = NoHistory
    /\ ncalls = 0

NextCtrl ==
    \/ \E sc \in ScanArgs, so \in {"True", "False"}, vb \in {"True", "False"} :
          ncalls < CtrlCalls /\ InitCall(sc, FALSE, <<>>, so, vb)
    \/ \E a \in ActivateArgs : ncalls < CtrlCalls /\ BatterySwitchOver(a)
    \/ \E a \in ActivateArgs : ncalls < CtrlCalls /\ VbatInterrupt(a)
    \/ ncalls < CtrlCalls /\ BatteryLow
    \/ ncalls < CtrlCalls /\ Now
    \/ ncalls < CtrlCalls /\ SetTime(<<2015, 10, 21, 16, 29, 0>>)
    \/ ncalls < CtrlCalls /\ GetSecond
    \/ ncalls < CtrlCalls /\ GetMinute
    \/ ncalls < CtrlCalls /\ GetHour
    \/ ncalls < CtrlCalls /\ GetDay
    \/ ncalls < CtrlCalls /\ GetWeekday(FALSE)
    \/ ncalls < CtrlCalls /\ GetMonth(FALSE)
    \/ ncalls < CtrlCalls /\ GetYear
    \/ ncalls < CtrlCalls /\ SetSecond(59)
    \/ ncalls < CtrlCalls /\ SetMinute(29)
    \/ ncalls < CtrlCalls /\ SetHour(23)
    \/ ncalls < CtrlCalls /\ SetDay(30)
    \/ ncalls < CtrlCalls /\ SetWeekday(6)
    \/ ncalls < CtrlCalls /\ SetMonth(12)
    \/ ncalls < CtrlCalls /\ SetYear(2119)

SpecCtrl == InitCtrl /\ [][NextCtrl]_vars

-----------------------------------------------------------------------------
(* Vocabulary of the properties *)

Bit(x, n) == (x \div Pow2(n)) % 2

Mode24 == Bit(regs[_REGISTER_CONTROL_1], 3) = 0

Reads(trace) == SelectSeq(trace, LAMBDA e : e[1] = "read")

Writes(trace) == SelectSeq(trace, LAMBDA e : e[1] = "write")

Getters ==
    {<<"get_second", _REGISTER_SECOND>>, <<"get_minute", _REGISTER_MINUTE>>,
     <<"get_hour", _REGISTER_HOUR>>, <<"get_day", _REGISTER_DAY>>,
     <<"get_weekday", _REGISTER_WEEKDAY>>, <<"get_month", _REGISTER_MONTH>>,
     <<"get_year", _REGISTER_YEAR>>}

Setters ==
    {<<"set_second", _REGISTER_SECOND>>, <<"set_minute", _REGISTER_MINUTE>>,
     <<"set_hour", _REGISTER_HOUR>>, <<"set_day", _REGISTER_DAY>>,
     <<"set_weekday", _REGISTER_WEEKDAY>>, <<"set_month", _REGISTER_MONTH>>,
     <<"set_year", _REGISTER_YEAR>>}

\* the domains the claims name, by register
Domain(reg) ==
    IF reg \in {_REGISTER_SECOND, _REGISTER_MINUTE} THEN 0 .. 59
    ELSE IF reg = _REGISTER_HOUR THEN 0 .. 23
    ELSE IF reg = _REGISTER_DAY THEN 1 .. 30
    ELSE IF reg = _REGISTER_WEEKDAY THEN 0 .. 6
    ELSE IF reg = _REGISTER_MONTH THEN 1 .. 12
    ELSE 1970 .. 2119

-----------------------------------------------------------------------------
\* C1: in 24h mode, a setter called with any value v of its field's domain succeeds,
\* and the field's getter, called while the register still holds what that setter
\* wrote, returns exactly v.
C1_RoundTrip ==
    Mode24 =>
        /\ \A s \in Setters :
              (last.op = s[1] /\ Len(last.arg) = 1 /\ last.arg[1] \in Domain(s[2]))
                 => (last.err = "none" /\ ghost.written[s[2]] = last.arg)
        /\ \A g \in Getters :
              (/\ last.op = g[1]
               /\ ghost.written[g[2]] # <<>>
               /\ g[2] = _REGISTER_HOUR => ghost.hmode = 0)
                 => (last.err = "none" /\ last.ret = ghost.written[g[2]])

C1_Witness ==
    /\ Mode24
    /\ last.op = "get_year"
    /\ ghost.written[_REGISTER_YEAR] = <<2119>>
    /\ last.ret = <<2119>>

-----------------------------------------------------------------------------
BoundaryCalls ==
    {<<"set_second", 60>>, <<"set_minute", 60>>, <<"set_day", 0>>, <<"set_day", 31>>,
     <<"set_month", 0>>, <<"set_month", 13>>, <<"set_year", 1969>>, <<"set_year", 2120>>,
     <<"set_weekday", 7>>, <<"set_hour", 24>>, <<"set_hour", -1>>}

-----------------------------------------------------------------------------
NonBooleanCall ==
    /\ last.op \in {"battery_switch_over", "vbat_interrupt"}
    /\ last.sarg[1] \notin {"True", "False"}

-----------------------------------------------------------------------------
SwitchOverOn ==
    /\ last'.op = "battery_switch_over"
    /\ last'.sarg = <<"True">>

\* C4 as claimed: after battery_switch_over(True) bits 0..4 of control3 equal their
\* values before the call, bits 5..7 are 0 and bit 3 is 0.
C4_LowFiveBitsKept ==
    [][SwitchOverOn =>
          /\ \A n \in 0 .. 4 :
                Bit(regs'[_REGISTER_CONTROL_3], n) = Bit(regs[_REGISTER_CONTROL_3], n)
          /\ \A n \in 5 .. 7 : Bit(regs'[_REGISTER_CONTROL_3], n) = 0
          /\ Bit(regs'[_REGISTER_CONTROL_3], 3) = 0]_vars

\* C4 as amended: after battery_switch_over(True) bits 0, 1, 2 and 4 of control3 equal
\* their values before the call, and bit 3 and bits 5..7 are 0.
C4_OtherBitsKept ==
    [][SwitchOverOn =>
          /\ last'.err = "none"
          /\ \A n \in {0, 1, 2, 4} :
                Bit(regs'[_REGISTER_CONTROL_3], n) = Bit(regs[_REGISTER_CONTROL_3], n)
          /\ \A n \in {3, 5, 6, 7} : Bit(regs'[_REGISTER_CONTROL_3], n) = 0]_vars

\* control3 held 0xFF before the call and holds 0x17 after it
C4_Witness ==
    /\ ncalls = 1
    /\ last.op = "battery_switch_over"
    /\ last.sarg = <<"True">>
    /\ regs[_REGISTER_CONTROL_3] = 23

-----------------------------------------------------------------------------
\* the registers of the six fields of a (year, month, day, hour, minute, second) tuple
TupleRegisters ==
    <<_REGISTER_YEAR, _REGISTER_MONTH, _REGISTER_DAY, _REGISTER_HOUR, _REGISTER_MINUTE,
      _REGISTER_SECOND>>

ValidTuple(t) ==
    /\ Len(t) \in 3 .. 8
    /\ \A i \in 1 .. 6 : i <= Len(t) => t[i] \in Domain(TupleRegisters[i])

Padded(t) == [i \in 1 .. 8 |-> IF i <= 6 /\ i <= Len(t) THEN t[i] ELSE 0]

\* C5: in 24h mode set_time(t), t of length 3 to 8 with every field in its domain,
\* succeeds, and now(), called while the registers hold what that set_time wrote,
\* returns (t[0], t[1], t[2], h, mi, s, 0, 0), h, mi and s being the tuple's entries at
\* positions 3, 4, 5, or 0 where the tuple is too short.
C5_SetTimeThenNow ==
    Mode24 =>
        /\ (last.op = "set_time" /\ ValidTuple(last.arg))
              => (last.err = "none" /\ ghost.lastTime = last.arg)
        /\ (last.op = "now" /\ ghost.lastTime # <<>> /\ ghost.hmode = 0)
              => (last.err = "none" /\ last.ret = Padded(ghost.lastTime))

C5_Witness ==
    /\ Mode24
    /\ last.op = "now"
    /\ ghost.lastTime = <<2019, 12, 30>>
    /\ last.ret = <<2019, 12, 30, 0, 0, 0, 0, 0>>
    /\ ghost.written[_REGISTER_HOUR] = <<0>>

-----------------------------------------------------------------------------
\* C6: init with the device in the scan, no datetime and boolean switch_over and
\* vbat_interrupt completes without error and leaves control1 with bit 3 at 0 and
\* every other bit as it was; and no call of the driver takes bit 3 of control1
\* from 0 to 1.
C6_Forces24h ==
    [][/\ (/\ last'.op = "init"
           /\ _ADDRESS \in last'.scan
           /\ last'.sarg[1] = "False"
           /\ last'.sarg[2] \in {"True", "False"}
           /\ last'.sarg[3] \in {"True", "False"})
          => /\ last'.err = "none"
             /\ \A n \in 0 .. 7 :
                   Bit(regs'[_REGISTER_CONTROL_1], n)
                     = IF n = 3 THEN 0 ELSE Bit(regs[_REGISTER_CONTROL_1], n)
       /\ Bit(regs[_REGISTER_CONTROL_1], 3) = 0 => Bit(regs'[_REGISTER_CONTROL_1], 3) = 0]_vars

\* control1 held 0xFF before init and holds 0xF7 after it
C6_Witness ==
    /\ ncalls = 1
    /\ last.op = "init"
    /\ _ADDRESS \in last.scan
    /\ last.err = "none"
    /\ regs[_REGISTER_CONTROL_1] = 247

-----------------------------------------------------------------------------
\* C7: init with the device address absent from the scan raises the device-not-found
\* error, issues no bus call after the scan, and leaves every register as it was,
\* whatever its datetime, switch_over and vbat_interrupt arguments.
C7_AbsentDevice ==
    [][(last'.op = "init" /\ _ADDRESS \notin last'.scan)
          => /\ last'.err = "RuntimeError"
             /\ last'.trace = <<<<"scan", _ADDRESS>>>>
             /\ regs' = regs]_vars

C7_Witness ==
    /\ last.op = "init"
    /\ last.scan = {}
    /\ last.sarg = <<"True", "None", "None">>
    /\ last.err = "RuntimeError"

-----------------------------------------------------------------------------
GetterCall(g) == last.op = g[1]

SetterCall(s) == last.op = s[1] /\ last.err = "none"

OneWrite(s) ==
    SetterCall(s) => Writes(last.trace) = <<<<"write", s[2]>>>>

ModeReadOnly(s) ==
    SetterCall(s) =>
        IF s[1] = "set_hour"
          THEN last.trace \in {<<<<"write", _REGISTER_HOUR>>>>,
                               <<<<"read", _REGISTER_CONTROL_1>>, <<"write", _REGISTER_HOUR>>>>}
          ELSE Reads(last.trace) = <<>>

\* C8 as claimed: every per-field getter issues exactly one register read and no
\* write; every per-field setter called with a valid value issues exactly one write,
\* to its own register, and no read, but for set_hour, which may read control1 once
\* before its write.
C8_OneAccess ==
    /\ \A g \in Getters :
          GetterCall(g) => (Len(Reads(last.trace)) = 1 /\ Writes(last.trace) = <<>>)
    /\ \A s \in Setters : OneWrite(s) /\ ModeReadOnly(s)

\* C8 as amended: every per-field getter but get_hour issues exactly one register read,
\* of its own register, and no write; get_hour issues exactly two reads, of the hour
\* register and then of control1, and no write; the setters are as claimed.
C8_OneAccessButGetHour ==
    /\ \A g \in Getters :
          GetterCall(g) =>
              last.trace = IF g[1] = "get_hour"
                             THEN <<<<"read", _REGISTER_HOUR>>, <<"read", _REGISTER_CONTROL_1>>>>
                             ELSE <<<<"read", g[2]>>>>
    /\ \A s \in Setters : OneWrite(s) /\ ModeReadOnly(s)

\* get_hour called after a set_hour that succeeded
C8_Witness ==
    /\ last.op = "get_hour"
    /\ Len(Reads(last.trace)) = 2
    /\ Writes(last.trace) = <<>>
    /\ ghost.written[_REGISTER_HOUR] = <<23>>

-----------------------------------------------------------------------------
InvalidTuple(t) == \E i \in 1 .. 6 : i <= Len(t) /\ t[i] \notin Domain(TupleRegisters[i])

TimeCallWithInvalidField ==
    /\ \/ last'.op = "set_time"
       \/ last'.op = "init" /\ last'.sarg[1] = "True"
    /\ InvalidTuple(last'.arg)

\* C9: set_time, or init through its datetime argument, called with a tuple of which
\* some field is outside its domain fails, and the year, month, day, hour, minute and
\* second registers all hold the bytes they held before the call.
C9_NoPartialTime ==
    [][TimeCallWithInvalidField =>
          /\ last'.err # "none"
          /\ \A i \in 1 .. 6 : regs'[TupleRegisters[i]] = regs[TupleRegisters[i]]]_vars

-----------------------------------------------------------------------------
\* C10: in every state reached after a successful set_hour, whenever control1 bit 3
\* is 0, get_hour returns a value of 0..23.
C10_HourInRange ==
    (ghost.written[_REGISTER_HOUR] # <<>> /\ Mode24) => get_hour(Cur).ret[1] \in 0 .. 23

====
